---- MODULE Spec2Model ----
(***************************************************************************)
(* A model of src/main.rs of rusty-engine: the OpenGL "two triangles"      *)
(* demo.  The program is single threaded; the model follows its control    *)
(* flow statement by statement (variable pc), together with the state of   *)
(* the two libraries it drives: the GLFW window (should-close flag, event  *)
(* channel, polling switches) and the OpenGL context (shader, program,     *)
(* buffer and vertex-array objects and the current bindings).              *)
(***************************************************************************)
EXTENDS Integers, Sequences, FiniteSets, TLC

(***************************************************************************)
(* Bounds of the model.                                                    *)
(***************************************************************************)
\* iterations of the run loop a behaviour may start
MaxFrames == 2
\* window events one call of poll_events may put on the channel
MaxEvents == 2

(***************************************************************************)
(* Program constants.                                                      *)
(***************************************************************************)
SCREEN_WIDTH == 800
SCREEN_HEIGHT == 600
\* count argument of gl::DrawElements
DrawCount == 6

\* i32 of Rust
I32Max == 2147483647
I32Min == -I32Max - 1
I32 == I32Min .. I32Max

\* A u32 is kept as its two 16-bit halves << high, low >>, its value being
\* high * 2^16 + low: the upper half of the u32 range is beyond the integers
\* the model checker computes with.
TwoTo16 == 65536
TwoTo15 == 32768

\* the u32 of a value in 0 .. 2^31 - 1
U32(n) == << n \div TwoTo16, n % TwoTo16 >>

\* faulty variant: a cast that saturates at 0 instead of wrapping
AsU32Saturating(x) == U32(IF x < 0 THEN 0 ELSE x)

\* "x as u32" for an i32 x: the same 32 bits read as unsigned, that is x for
\* x >= 0 and x + 2^32 for x < 0
AsU32(x) ==
    IF x >= 0 THEN U32(x)
    ELSE << TwoTo15 + ((x - I32Min) \div TwoTo16), (x - I32Min) % TwoTo16 >>

\* whether the u32 u has the integer value x
HasValue(u, x) == x >= 0 /\ u = U32(x)

\* the literal arrays of OpenGLContext::initialize (coordinates in hundredths)
verticies ==
    << -90, -50, 0,   0, -50, 0,   -45, 50, 0,
         0, -50, 0,  90, -50, 0,    45, 50, 0 >>
indicies == << 0, 1, 3, 1, 2, 3 >>
\* mem::size_of::<GLfloat>()
SizeOfGLfloat == 4
\* the width of an element of indicies (i32)
SizeOfI32 == 4

\* the shader_vec built by OpenGLContext::initialize
shader_vec ==
    << [shader_src |-> "VERT_SHADER_SRC", shader_type |-> "VERTEX_SHADER"],
       [shader_src |-> "FRAG_SHADER_SRC", shader_type |-> "FRAGMENT_SHADER"] >>

(***************************************************************************)
(* Object names the OpenGL implementation may hand out.  Shaders and       *)
(* programs share one name space, buffers and vertex arrays have their     *)
(* own; 0 is never a name.  The two buffers get their names in either      *)
(* order.                                                                  *)
(***************************************************************************)
ShaderNames == {1, 2, 3}
BufferNames == {1, 2}
VaoNames == {1}

(***************************************************************************)
(* Window events the channel can carry: key polling and framebuffer-size   *)
(* polling are the only ones the program switches on.                      *)
(***************************************************************************)
Keys == {"Escape", "A"}
Actions == {"Press", "Release", "Repeat"}
\* framebuffer sizes: i32 values, negative ones and the extreme of the type included
FramebufferSizes == { <<1024, 768>>, <<-1, I32Min>> }

\* the scancode and the modifiers of a key event are matched by _ and left out
KeyEvents ==
    { e \in [kind : {"Key"}, key : Keys, action : Actions] :
        e.key = "Escape" \/ e.action = "Press" }
FramebufferSizeEvents ==
    { [kind |-> "FramebufferSize", width |-> s[1], height |-> s[2]] : s \in FramebufferSizes }
WindowEvents == KeyEvents \cup FramebufferSizeEvents

RECURSIVE SeqsUpTo(_, _)
SeqsUpTo(S, n) ==
    IF n = 0 THEN { <<>> }
    ELSE LET shorter == SeqsUpTo(S, n - 1)
         IN  shorter \cup { Append(s, e) : s \in { t \in shorter : Len(t) = n - 1 }, e \in S }

Range(s) == { s[i] : i \in DOMAIN s }

(***************************************************************************)
(* The OpenGL context.  Every operator below is one GL entry point: it     *)
(* takes the context g and returns the context after the call.  A call     *)
(* the GL rejects leaves the objects alone and raises the error flag.      *)
(***************************************************************************)
NoAttrib == [enabled |-> FALSE, buffer |-> 0, size |-> 0, type |-> "NONE",
             stride |-> 0, offset |-> 0]

\* the context right after window creation made it current
FreshContext(width, height) ==
    [ shaders |-> <<>>,             \* name -> shader object
      programs |-> <<>>,            \* name -> program object
      buffers |-> <<>>,             \* name -> buffer object
      vaos |-> <<>>,                \* name -> vertex array object
      vertexArrayBinding |-> 0,
      arrayBufferBinding |-> 0,
      currentProgram |-> 0,
      viewport |-> <<0, 0, width, height>>,
      clearColor |-> <<0, 0, 0, 0>>,
      error |-> FALSE ]

Without(f, n) == [ m \in (DOMAIN f) \ {n} |-> f[m] ]

GLError(g) == [g EXCEPT !.error = TRUE]

GLCreateShader(g, name, type) ==
    [g EXCEPT !.shaders = (name :> [type |-> type, source |-> "", compiled |-> FALSE,
                                     deleteFlag |-> FALSE]) @@ @]

GLShaderSource(g, s, src) ==
    IF s \in DOMAIN g.shaders
    THEN [g EXCEPT !.shaders[s].source = src]
    ELSE GLError(g)

\* ok: whether the driver's compiler accepts the source
GLCompileShader(g, s, ok) ==
    IF s \in DOMAIN g.shaders
    THEN [g EXCEPT !.shaders[s].compiled = ok]
    ELSE GLError(g)

GLCreateProgram(g, name) ==
    [g EXCEPT !.programs = (name :> [attached |-> <<>>, linkStatus |-> FALSE,
                                      linkedWith |-> <<>>, linkRequests |-> 0]) @@ @]

GLAttachShader(g, p, s) ==
    IF /\ p \in DOMAIN g.programs
       /\ s \in DOMAIN g.shaders
       /\ s \notin Range(g.programs[p].attached)
    THEN [g EXCEPT !.programs[p].attached = Append(@, s)]
    ELSE GLError(g)

\* A link can succeed only when every attached shader compiled.
LinkCanSucceed(g, p) ==
    /\ p \in DOMAIN g.programs
    /\ g.programs[p].attached # <<>>
    /\ \A s \in Range(g.programs[p].attached) : g.shaders[s].compiled

\* ok: whether the driver's linker accepts the attached shaders
GLLinkProgram(g, p, ok) ==
    IF p \in DOMAIN g.programs
    THEN [g EXCEPT !.programs[p].linkStatus = ok /\ LinkCanSucceed(g, p),
                   !.programs[p].linkedWith = g.programs[p].attached,
                   !.programs[p].linkRequests = @ + 1]
    ELSE GLError(g)

IsAttached(g, s) == \E p \in DOMAIN g.programs : s \in Range(g.programs[p].attached)

\* A shader still attached to a program is flagged and lives on until detached.
GLDeleteShader(g, s) ==
    IF s = 0 THEN g
    ELSE IF s \notin DOMAIN g.shaders THEN GLError(g)
    ELSE IF IsAttached(g, s) THEN [g EXCEPT !.shaders[s].deleteFlag = TRUE]
    ELSE [g EXCEPT !.shaders = Without(@, s)]

GLGenVertexArrays(g, name) ==
    [g EXCEPT !.vaos = (name :> [attrib0 |-> NoAttrib, elementBuffer |-> 0]) @@ @]

GLGenBuffers(g, name) ==
    [g EXCEPT !.buffers = (name :> [size |-> 0, data |-> <<>>, usage |-> "NONE"]) @@ @]

GLBindVertexArray(g, v) ==
    IF v = 0 \/ v \in DOMAIN g.vaos
    THEN [g EXCEPT !.vertexArrayBinding = v]
    ELSE GLError(g)

\* The element-array binding is state of the bound vertex array.
GLBindBuffer(g, target, b) ==
    IF b # 0 /\ b \notin DOMAIN g.buffers THEN GLError(g)
    ELSE IF target = "ARRAY_BUFFER" THEN [g EXCEPT !.arrayBufferBinding = b]
    ELSE IF g.vertexArrayBinding = 0 THEN GLError(g)
    ELSE [g EXCEPT !.vaos[g.vertexArrayBinding].elementBuffer = b]

BoundBuffer(g, target) ==
    IF target = "ARRAY_BUFFER" THEN g.arrayBufferBinding
    ELSE IF g.vertexArrayBinding = 0 THEN 0
    ELSE g.vaos[g.vertexArrayBinding].elementBuffer

\* size bytes are copied from an array whose elements are elemSize bytes wide
GLBufferData(g, target, size, array, elemSize, usage) ==
    LET b == BoundBuffer(g, target)
        n == size \div elemSize
    IN  IF b = 0 \/ n > Len(array) THEN GLError(g)
        ELSE [g EXCEPT !.buffers[b] =
                  [size |-> size, data |-> SubSeq(array, 1, n), usage |-> usage]]

\* records the buffer bound to ARRAY_BUFFER at the time of the call
GLVertexAttribPointer0(g, size, type, stride, offset) ==
    IF g.vertexArrayBinding = 0 THEN GLError(g)
    ELSE [g EXCEPT !.vaos[g.vertexArrayBinding].attrib0 =
              [enabled |-> @.enabled, buffer |-> g.arrayBufferBinding, size |-> size,
               type |-> type, stride |-> stride, offset |-> offset]]

GLEnableVertexAttribArray0(g) ==
    IF g.vertexArrayBinding = 0 THEN GLError(g)
    ELSE [g EXCEPT !.vaos[g.vertexArrayBinding].attrib0.enabled = TRUE]

\* a negative width or height is GL_INVALID_VALUE
GLViewport(g, x, y, w, h) ==
    IF w < 0 \/ h < 0 THEN GLError(g)
    ELSE [g EXCEPT !.viewport = <<x, y, w, h>>]

GLClearColor(g, r, gr, b, a) == [g EXCEPT !.clearColor = <<r, gr, b, a>>]

\* a program that did not link cannot be made current
GLUseProgram(g, p) ==
    IF p = 0 THEN [g EXCEPT !.currentProgram = 0]
    ELSE IF p \in DOMAIN g.programs /\ g.programs[p].linkStatus
         THEN [g EXCEPT !.currentProgram = p]
    ELSE GLError(g)


VARIABLES
    pc,               \* position of the main thread
    glfw,             \* the GLFW library and its window
    window_events,    \* Receiver<(f64, WindowEvent)>: events not yet received
    gl,               \* the OpenGL context
    locals,           \* local variables of the initialize functions
    app,              \* the OpenGLApplication value (fields other than glfw/window)
    out,              \* lines printed to standard output
    hist              \* what has happened so far (the claims are stated over it)

vars == << pc, glfw, window_events, gl, locals, app, out, hist >>

(***************************************************************************)
(* pc: where the main thread is.  Running is the run loop of               *)
(* OpenGLApplication::run; "done" is main returned; "panicked" is the      *)
(* process ended by unwrap / expect.                                       *)
(***************************************************************************)
InitPcs == { "glfw_init", "create_window", "window_setup" }
ContextPcs ==
    { "compile", "create_program", "attach", "link", "delete",
      "gen_vao", "gen_vbo", "gen_ebo", "bind_vao", "bind_vbo", "data_vbo",
      "bind_ebo", "data_ebo", "attrib_pointer", "enable_attrib",
      "unbind_vbo", "unbind_vao", "construct" }
FramePcs == { "events", "clear", "use_program", "bind_frame_vao", "draw", "swap", "poll" }
RunPcs == { "loop_test" } \cup FramePcs
Uninitialized == pc \in InitPcs \cup ContextPcs
Running == pc \in RunPcs
Closing == pc = "done"

NoLocals ==
    [ compiled_shaders |-> <<>>, i |-> 0, link_program |-> 0, shader_program |-> 0,
      vao |-> 0, vbo |-> 0, ebo |-> 0 ]

NoApp ==
    [ constructed |-> FALSE, screen_width |-> U32(0), screen_height |-> U32(0), title |-> "",
      opengl_context |-> [shader_program |-> 0, vao |-> 0, vbo |-> 0, ebo |-> 0] ]

NoHist ==
    [ iters |-> 0,                 \* iterations of the run loop started
      frame |-> <<>>,              \* calls made in the current iteration, in order
      draws |-> <<>>,              \* every DrawElements call, in order
      viewport |-> <<>>,           \* arguments of the latest Viewport call
      drained |-> <<>>,            \* events dispatched by the current drain, in order
      escape |-> FALSE,            \* process_window_events dispatched an Escape press
      sinceEscape |-> <<>>,        \* calls made since the first such dispatch
      closeRequest |-> FALSE,      \* poll_events saw the user close the window
      late |-> FALSE,              \* an event was dispatched in another iteration
                                   \* than the one after its poll
      contextCalls |-> <<>> ]      \* GL calls of OpenGLContext::initialize, in order

Init ==
    /\ pc = "glfw_init"
    /\ glfw = [ initialized |-> FALSE, window |-> FALSE, should_close |-> FALSE,
                key_polling |-> FALSE, framebuffer_size_polling |-> FALSE,
                swaps |-> 0 ]
    /\ window_events = <<>>
    /\ gl = FreshContext(0, 0)
    /\ locals = NoLocals
    /\ app = NoApp
    /\ out = <<>>
    /\ hist = NoHist

(***************************************************************************)
(* OpenGLApplication::initialize, up to the call of                        *)
(* OpenGLContext::initialize.                                              *)
(***************************************************************************)
\* glfw::init(FAIL_ON_ERRORS).unwrap() and the two window hints
GlfwInit ==
    /\ pc = "glfw_init"
    /\ \E ok \in BOOLEAN :
          IF ok
          THEN /\ glfw' = [glfw EXCEPT !.initialized = TRUE]
               /\ pc' = "create_window"
               /\ out' = out
          ELSE /\ pc' = "panicked"
               /\ out' = Append(out, "panic: Result::unwrap on an Err value")
               /\ glfw' = glfw
    /\ UNCHANGED << window_events, gl, locals, app, hist >>

\* glfw.create_window(width, height, title, Windowed).expect(..)
CreateWindow ==
    /\ pc = "create_window"
    /\ \E ok \in BOOLEAN :
          IF ok
          THEN /\ glfw' = [glfw EXCEPT !.window = TRUE]
               /\ pc' = "window_setup"
               /\ out' = out
          ELSE /\ pc' = "panicked"
               /\ out' = Append(out, "panic: Failed to create GLFW Window")
               /\ glfw' = glfw
    /\ UNCHANGED << window_events, gl, locals, app, hist >>

\* make_current, set_key_polling, set_framebuffer_size_polling, gl::load_with
WindowSetup ==
    /\ pc = "window_setup"
    /\ glfw' = [glfw EXCEPT !.key_polling = TRUE, !.framebuffer_size_polling = TRUE]
    /\ gl' = FreshContext(SCREEN_WIDTH, SCREEN_HEIGHT)
    /\ pc' = "compile"
    /\ UNCHANGED << window_events, locals, app, out, hist >>

(***************************************************************************)
(* OpenGLContext::initialize: compile_shaders_vec, link_shaders_vec and    *)
(* the geometry set-up.                                                    *)
(***************************************************************************)
Call(name, target, arg) == [call |-> name, target |-> target, arg |-> arg]

Logged(calls) == [hist EXCEPT !.contextCalls = @ \o calls]

UsedShaderNames == (DOMAIN gl.shaders) \cup (DOMAIN gl.programs)

\* The name CreateShader or CreateProgram returns: an unused one.  The program
\* never looks at the value of a handle, so one choice stands for all (the
\* lowest unused name, as common drivers give).
NewShaderName ==
    CHOOSE n \in ShaderNames \ UsedShaderNames :
        \A m \in ShaderNames \ UsedShaderNames : n <= m

\* The info_log vector is created with capacity 512 and length 0 and its length
\* is never set: the text printed after the tag is the empty string.
CompileDiagnostic == "ERROR::SHADER::COMPILATION_FAILED"
LinkDiagnostic == "ERROR::SHADER::PROGRAM::COMPILATION_FAILED"

\* faulty variant: a shader that does not compile is discarded, its name still returned
CompileCallsDiscarding(g, unit, name, ok) ==
    IF ok
    THEN GLCompileShader(
             GLShaderSource(GLCreateShader(g, name, unit.shader_type), name, unit.shader_src),
             name, ok)
    ELSE g

\* GLShader::compile on unit: the context after the calls, for the name the driver
\* hands out and the compiler's verdict
CompileCalls(g, unit, name, ok) ==
    GLCompileShader(
        GLShaderSource(GLCreateShader(g, name, unit.shader_type), name, unit.shader_src),
        name, ok)

\* what compile prints
CompileOutput(ok) == IF ok THEN <<>> ELSE << CompileDiagnostic >>

\* faulty variant: a shader that does not compile ends the process
CompileShaderFailClosed ==
    /\ pc = "compile"
    /\ LET n == Len(locals.compiled_shaders) + 1
           unit == shader_vec[n]
       IN  \E name \in { NewShaderName }, ok \in BOOLEAN :
              /\ gl' = CompileCalls(gl, unit, name, ok)
              /\ out' = out \o CompileOutput(ok)
              /\ locals' = [locals EXCEPT !.compiled_shaders = Append(@, name)]
              /\ hist' = Logged(<< Call("CompileShader", unit.shader_type, name) >>)
              /\ pc' = IF ~ok THEN "panicked"
                       ELSE IF n = Len(shader_vec) THEN "create_program" ELSE "compile"
    /\ UNCHANGED << glfw, window_events, app >>

\* one iteration of the for loop of compile_shaders_vec: shader.compile() and push
CompileShader ==
    /\ pc = "compile"
    /\ LET n == Len(locals.compiled_shaders) + 1
           unit == shader_vec[n]
       IN  \E name \in { NewShaderName }, ok \in BOOLEAN :
              /\ gl' = CompileCalls(gl, unit, name, ok)
              /\ out' = out \o CompileOutput(ok)
              /\ locals' = [locals EXCEPT !.compiled_shaders = Append(@, name)]
              /\ hist' = Logged(<< Call("CompileShader", unit.shader_type, name) >>)
              /\ pc' = IF n = Len(shader_vec) THEN "create_program" ELSE "compile"
    /\ UNCHANGED << glfw, window_events, app >>

\* link_shaders_vec: gl::CreateProgram()
CreateProgram ==
    /\ pc = "create_program"
    /\ \E name \in { NewShaderName } :
          /\ gl' = GLCreateProgram(gl, name)
          /\ locals' = [locals EXCEPT !.link_program = name, !.i = 1]
          /\ hist' = Logged(<< Call("CreateProgram", "", name) >>)
    /\ pc' = IF locals.compiled_shaders = <<>> THEN "link" ELSE "attach"
    /\ UNCHANGED << glfw, window_events, app, out >>

\* link_shaders_vec: one iteration of the attach loop
AttachShader ==
    /\ pc = "attach"
    /\ LET s == locals.compiled_shaders[locals.i]
       IN  /\ gl' = GLAttachShader(gl, locals.link_program, s)
           /\ hist' = Logged(<< Call("AttachShader", "", s) >>)
    /\ locals' = [locals EXCEPT !.i = IF @ = Len(locals.compiled_shaders) THEN 1 ELSE @ + 1]
    /\ pc' = IF locals.i = Len(locals.compiled_shaders) THEN "link" ELSE "attach"
    /\ UNCHANGED << glfw, window_events, app, out >>

\* what link_shaders_vec prints after the status query
LinkOutput(status) == IF status THEN <<>> ELSE << LinkDiagnostic >>

\* faulty variant: no handle is returned for a program that did not link
LinkResultFailClosed(program, status) == IF status THEN program ELSE 0

\* the value link_shaders_vec returns
LinkResult(program, status) == program

\* the local shader_program of OpenGLContext::initialize once link_shaders_vec returned
Returned(l, g) ==
    [l EXCEPT !.shader_program = LinkResult(l.link_program, g.programs[l.link_program].linkStatus)]

\* link_shaders_vec: LinkProgram, GetProgramiv, and the report
LinkProgram ==
    /\ pc = "link"
    /\ \E ok \in BOOLEAN :
          /\ gl' = GLLinkProgram(gl, locals.link_program, ok)
          /\ out' = out \o LinkOutput(gl'.programs[locals.link_program].linkStatus)
    /\ hist' = Logged(<< Call("LinkProgram", "", locals.link_program) >>)
    /\ IF locals.compiled_shaders = <<>>
       THEN /\ pc' = "gen_vao"
            /\ locals' = Returned(locals, gl')
       ELSE /\ pc' = "delete"
            /\ locals' = locals
    /\ UNCHANGED << glfw, window_events, app >>

\* link_shaders_vec: one iteration of the delete loop; after the last, the return
DeleteShader ==
    /\ pc = "delete"
    /\ LET s == locals.compiled_shaders[locals.i]
       IN  /\ gl' = GLDeleteShader(gl, s)
           /\ hist' = Logged(<< Call("DeleteShader", "", s) >>)
    /\ IF locals.i = Len(locals.compiled_shaders)
       THEN /\ pc' = "gen_vao"
            /\ locals' = Returned([locals EXCEPT !.i = 0], gl')
       ELSE /\ pc' = "delete"
            /\ locals' = [locals EXCEPT !.i = @ + 1]
    /\ UNCHANGED << glfw, window_events, app, out >>

\* a step of the geometry set-up: one GL call, made at pc = at
GeometryStep(at, next, g, l, calls) ==
    /\ pc = at
    /\ pc' = next
    /\ gl' = g
    /\ locals' = l
    /\ hist' = Logged(calls)
    /\ UNCHANGED << glfw, window_events, app, out >>

\* gl::GenVertexArrays(1, &mut vao)
GenVertexArrays ==
    \E name \in VaoNames \ DOMAIN gl.vaos :
        GeometryStep("gen_vao", "gen_vbo", GLGenVertexArrays(gl, name),
                     [locals EXCEPT !.vao = name],
                     << Call("GenVertexArrays", "", name) >>)

\* gl::GenBuffers(1, &mut vbo)
GenVbo ==
    \E name \in BufferNames \ DOMAIN gl.buffers :
        GeometryStep("gen_vbo", "gen_ebo", GLGenBuffers(gl, name),
                     [locals EXCEPT !.vbo = name],
                     << Call("GenBuffers", "", name) >>)

\* gl::GenBuffers(1, &mut ebo)
GenEbo ==
    \E name \in BufferNames \ DOMAIN gl.buffers :
        GeometryStep("gen_ebo", "bind_vao", GLGenBuffers(gl, name),
                     [locals EXCEPT !.ebo = name],
                     << Call("GenBuffers", "", name) >>)

\* gl::BindVertexArray(vao)
BindVao ==
    GeometryStep("bind_vao", "bind_vbo", GLBindVertexArray(gl, locals.vao), locals,
                 << Call("BindVertexArray", "", locals.vao) >>)

\* gl::BindBuffer(gl::ARRAY_BUFFER, vbo)
BindVbo ==
    GeometryStep("bind_vbo", "data_vbo", GLBindBuffer(gl, "ARRAY_BUFFER", locals.vbo), locals,
                 << Call("BindBuffer", "ARRAY_BUFFER", locals.vbo) >>)

\* gl::BufferData(gl::ARRAY_BUFFER, verticies.len() * size_of::<GLfloat>(), ..)
DataVbo ==
    GeometryStep("data_vbo", "bind_ebo",
                 GLBufferData(gl, "ARRAY_BUFFER", Len(verticies) * SizeOfGLfloat,
                              verticies, SizeOfGLfloat, "STATIC_DRAW"),
                 locals,
                 << Call("BufferData", "ARRAY_BUFFER", Len(verticies) * SizeOfGLfloat) >>)

\* gl::BindBuffer(gl::ELEMENT_ARRAY_BUFFER, ebo)
BindEbo ==
    GeometryStep("bind_ebo", "data_ebo",
                 GLBindBuffer(gl, "ELEMENT_ARRAY_BUFFER", locals.ebo), locals,
                 << Call("BindBuffer", "ELEMENT_ARRAY_BUFFER", locals.ebo) >>)

\* gl::BufferData(gl::ELEMENT_ARRAY_BUFFER, indicies.len() * size_of::<GLfloat>(), ..):
\* the byte length is computed with the float size, the array holds i32
DataEbo ==
    GeometryStep("data_ebo", "attrib_pointer",
                 GLBufferData(gl, "ELEMENT_ARRAY_BUFFER", Len(indicies) * SizeOfGLfloat,
                              indicies, SizeOfI32, "STATIC_DRAW"),
                 locals,
                 << Call("BufferData", "ELEMENT_ARRAY_BUFFER", Len(indicies) * SizeOfGLfloat) >>)

\* gl::VertexAttribPointer(0, 3, gl::FLOAT, gl::FALSE, 3 * size_of::<GLfloat>(), null)
AttribPointer ==
    GeometryStep("attrib_pointer", "enable_attrib",
                 GLVertexAttribPointer0(gl, 3, "FLOAT", 3 * SizeOfGLfloat, 0), locals,
                 << Call("VertexAttribPointer", "", 0) >>)

\* gl::EnableVertexAttribArray(0)
EnableAttrib ==
    GeometryStep("enable_attrib", "unbind_vbo", GLEnableVertexAttribArray0(gl), locals,
                 << Call("EnableVertexAttribArray", "", 0) >>)

\* faulty variant: the index buffer is unbound while the vertex array is still bound
UnbindEbo ==
    GeometryStep("unbind_vbo", "unbind_vao", GLBindBuffer(gl, "ELEMENT_ARRAY_BUFFER", 0), locals,
                 << Call("BindBuffer", "ELEMENT_ARRAY_BUFFER", 0) >>)

\* gl::BindBuffer(gl::ARRAY_BUFFER, 0)
UnbindVbo ==
    GeometryStep("unbind_vbo", "unbind_vao", GLBindBuffer(gl, "ARRAY_BUFFER", 0), locals,
                 << Call("BindBuffer", "ARRAY_BUFFER", 0) >>)

\* gl::BindVertexArray(0)
UnbindVao ==
    GeometryStep("unbind_vao", "construct", GLBindVertexArray(gl, 0), locals,
                 << Call("BindVertexArray", "", 0) >>)

\* the OpenGLContext value returned by OpenGLContext::initialize
ContextOf(l) ==
    [ shader_program |-> l.shader_program, vao |-> l.vao, vbo |-> l.vbo, ebo |-> l.ebo ]

\* Self { .. } of OpenGLContext::initialize and of OpenGLApplication::initialize;
\* main then calls app.run()
Construct ==
    /\ pc = "construct"
    /\ app' = [ constructed |-> TRUE,
                screen_width |-> U32(SCREEN_WIDTH),
                screen_height |-> U32(SCREEN_HEIGHT),
                title |-> "OpenGL Learning",
                opengl_context |-> ContextOf(locals) ]
    /\ locals' = NoLocals
    /\ pc' = "loop_test"
    /\ UNCHANGED << glfw, window_events, gl, out, hist >>

(***************************************************************************)
(* OpenGLApplication::run and process_window_events.                       *)
(***************************************************************************)
\* the calls of the current iteration, and of the time since Escape was dispatched
Framed(h, calls) ==
    [h EXCEPT !.frame = @ \o calls,
              !.sinceEscape = IF h.escape THEN @ \o calls ELSE @]

\* faulty variant: the loop also goes on while events are pending
LoopConditionPending == ~glfw.should_close \/ window_events # <<>>

\* the condition of the while loop: !self.window.should_close()
LoopCondition == ~glfw.should_close

\* the while condition holds: the body starts
LoopEnter ==
    /\ pc = "loop_test"
    /\ LoopCondition
    /\ hist.iters < MaxFrames
    /\ pc' = "events"
    /\ hist' = [hist EXCEPT !.iters = @ + 1, !.frame = <<>>, !.drained = <<>>]
    /\ UNCHANGED << glfw, window_events, gl, locals, app, out >>

\* the while condition fails: run returns, main returns
LoopExit ==
    /\ pc = "loop_test"
    /\ ~LoopCondition
    /\ pc' = "done"
    /\ UNCHANGED << glfw, window_events, gl, locals, app, out, hist >>

\* the patterns of the match, in the order they are tried
IsFramebufferSize(e) == e.kind = "FramebufferSize"
\* faulty variant: the action of the key event is not looked at
IsEscapePressAnyAction(e) == e.kind = "Key" /\ e.key = "Escape"
IsEscapePress(e) == e.kind = "Key" /\ e.key = "Escape" /\ e.action = "Press"

\* the history after the head of the channel was received in this iteration
Received(h) ==
    [h EXCEPT !.drained = Append(@, Head(window_events)[2]),
              !.late = @ \/ Head(window_events)[1] # h.iters - 1]

\* the fields of the application after FramebufferSize(width, height)
Resized(a, width, height) ==
    [a EXCEPT !.screen_width = AsU32(width), !.screen_height = AsU32(height)]

\* arm 1: FramebufferSize(width, height)
DispatchFramebufferSize ==
    /\ pc = "events"
    /\ window_events # <<>>
    /\ LET e == Head(window_events)[2]
       IN  /\ IsFramebufferSize(e)
           /\ gl' = GLViewport(gl, 0, 0, e.width, e.height)
           /\ app' = Resized(app, e.width, e.height)
           /\ hist' = [Received(hist) EXCEPT !.viewport = <<0, 0, e.width, e.height>>]
    /\ window_events' = Tail(window_events)
    /\ UNCHANGED << pc, glfw, locals, out >>

\* the window after set_should_close(value)
SetShouldClose(w, value) == [w EXCEPT !.should_close = value]

\* arm 2: Key(Escape, _, Press, _)
DispatchEscapePress ==
    /\ pc = "events"
    /\ window_events # <<>>
    /\ LET e == Head(window_events)[2]
       IN  /\ ~IsFramebufferSize(e)
           /\ IsEscapePress(e)
    /\ glfw' = SetShouldClose(glfw, TRUE)
    /\ hist' = [Received(hist) EXCEPT !.escape = TRUE]
    /\ window_events' = Tail(window_events)
    /\ UNCHANGED << pc, gl, locals, app, out >>

\* arm 3: _ => {}
DispatchOther ==
    /\ pc = "events"
    /\ window_events # <<>>
    /\ LET e == Head(window_events)[2]
       IN  /\ ~IsFramebufferSize(e)
           /\ ~IsEscapePress(e)
    /\ hist' = Received(hist)
    /\ window_events' = Tail(window_events)
    /\ UNCHANGED << pc, glfw, gl, locals, app, out >>

\* faulty variant: process_window_events returns without receiving until the channel is empty
EventsDrainedEarly ==
    /\ pc = "events"
    /\ pc' = "clear"
    /\ hist' = Framed(hist, << Call("process_window_events", "", 0) >>)
    /\ UNCHANGED << glfw, window_events, gl, locals, app, out >>

\* flush_messages is exhausted: process_window_events returns
EventsDrained ==
    /\ pc = "events"
    /\ window_events = <<>>
    /\ pc' = "clear"
    /\ hist' = Framed(hist, << Call("process_window_events", "", 0) >>)
    /\ UNCHANGED << glfw, window_events, gl, locals, app, out >>

\* gl::ClearColor(0.2, 0.3, 0.3, 1.0) (in tenths) and gl::Clear(COLOR_BUFFER_BIT)
Clear ==
    /\ pc = "clear"
    /\ gl' = GLClearColor(gl, 2, 3, 3, 10)
    /\ hist' = [Framed(hist, << Call("ClearColor", "", 0), Call("Clear", "COLOR_BUFFER_BIT", 0) >>)
                   EXCEPT !.drained = <<>>]
    /\ pc' = "use_program"
    /\ UNCHANGED << glfw, window_events, locals, app, out >>

\* gl::UseProgram(self.opengl_context.shader_program)
UseProgram ==
    /\ pc = "use_program"
    /\ gl' = GLUseProgram(gl, app.opengl_context.shader_program)
    /\ hist' = Framed(hist, << Call("UseProgram", "", app.opengl_context.shader_program) >>)
    /\ pc' = "bind_frame_vao"
    /\ UNCHANGED << glfw, window_events, locals, app, out >>

\* faulty variant: the frame binds the index buffer's name as the vertex array
BindFrameVaoWrongHandle ==
    /\ pc = "bind_frame_vao"
    /\ gl' = GLBindVertexArray(gl, app.opengl_context.ebo)
    /\ hist' = Framed(hist, << Call("BindVertexArray", "", app.opengl_context.ebo) >>)
    /\ pc' = "draw"
    /\ UNCHANGED << glfw, window_events, locals, app, out >>

\* gl::BindVertexArray(self.opengl_context.vao)
BindFrameVao ==
    /\ pc = "bind_frame_vao"
    /\ gl' = GLBindVertexArray(gl, app.opengl_context.vao)
    /\ hist' = Framed(hist, << Call("BindVertexArray", "", app.opengl_context.vao) >>)
    /\ pc' = "draw"
    /\ UNCHANGED << glfw, window_events, locals, app, out >>

\* the draw call of the loop body, as the GL sees it
DrawCall(g) ==
    [ mode |-> "TRIANGLES", count |-> DrawCount, type |-> "UNSIGNED_INT", offset |-> 0,
      program |-> g.currentProgram, vao |-> g.vertexArrayBinding ]

\* gl::DrawElements(gl::TRIANGLES, 6, gl::UNSIGNED_INT, ptr::null())
DrawElements ==
    /\ pc = "draw"
    /\ hist' = [Framed(hist, << Call("DrawElements", "TRIANGLES", DrawCount) >>)
                   EXCEPT !.draws = Append(@, DrawCall(gl))]
    /\ pc' = "swap"
    /\ UNCHANGED << glfw, window_events, gl, locals, app, out >>

\* faulty variant: presenting the frame also asks the loop to end
SwapBuffersClosing ==
    /\ pc = "swap"
    /\ glfw' = [glfw EXCEPT !.swaps = @ + 1, !.should_close = TRUE]
    /\ hist' = Framed(hist, << Call("swap_buffers", "", 0) >>)
    /\ pc' = "poll"
    /\ UNCHANGED << window_events, gl, locals, app, out >>

\* self.window.swap_buffers()
SwapBuffers ==
    /\ pc = "swap"
    /\ glfw' = [glfw EXCEPT !.swaps = @ + 1]
    /\ hist' = Framed(hist, << Call("swap_buffers", "", 0) >>)
    /\ pc' = "poll"
    /\ UNCHANGED << window_events, gl, locals, app, out >>

\* the events GLFW forwards to the channel: those whose polling is switched on
Deliverable(w) ==
    (IF w.key_polling THEN KeyEvents ELSE {})
        \cup (IF w.framebuffer_size_polling THEN FramebufferSizeEvents ELSE {})

\* the time stamp of the events of one poll: the iteration that polled them
Stamped(evs, time) == [ i \in DOMAIN evs |-> << time, evs[i] >> ]

\* self.glfw.poll_events(): the pending input is turned into channel messages;
\* a close request of the user (the window's close button) raises the window's
\* should-close flag inside GLFW
PollEvents ==
    /\ pc = "poll"
    /\ \E evs \in SeqsUpTo(Deliverable(glfw), MaxEvents), close \in BOOLEAN :
          /\ window_events' = window_events \o Stamped(evs, hist.iters)
          /\ glfw' = [glfw EXCEPT !.should_close = @ \/ close]
          /\ hist' = [Framed(hist, << Call("poll_events", "", 0) >>)
                         EXCEPT !.closeRequest = @ \/ close]
    /\ pc' = "loop_test"
    /\ UNCHANGED << gl, locals, app, out >>

Next ==
    \/ GlfwInit \/ CreateWindow \/ WindowSetup
    \/ CompileShader \/ CreateProgram \/ AttachShader \/ LinkProgram \/ DeleteShader
    \/ GenVertexArrays \/ GenVbo \/ GenEbo \/ BindVao \/ BindVbo \/ DataVbo
    \/ BindEbo \/ DataEbo \/ AttribPointer \/ EnableAttrib \/ UnbindVbo \/ UnbindVao
    \/ Construct
    \/ LoopEnter \/ LoopExit
    \/ DispatchFramebufferSize \/ DispatchEscapePress \/ DispatchOther \/ EventsDrained
    \/ Clear \/ UseProgram \/ BindFrameVao \/ DrawElements \/ SwapBuffers \/ PollEvents

Spec == Init /\ [][Next]_vars

\* The program is one thread that runs every statement it reaches.
FairSpec == Spec /\ WF_vars(Next)

(***************************************************************************)
(* link_shaders_vec on its own: called with any sequence of distinct       *)
(* shader handles, each compiled or not.                                   *)
(***************************************************************************)
\* the sequences of distinct names of S of at most n names
DistinctSeqs(S, n) ==
    { q \in SeqsUpTo(S, n) : \A i, j \in DOMAIN q : i # j => q[i] # q[j] }

\* shader names link_shaders_vec is handed: one name is left for the program
LinkInputs == DistinctSeqs(ShaderNames, Cardinality(ShaderNames) - 1)

\* a context that holds the shader objects of handles, compiled[i] telling
\* whether the i-th compiled
ContextWith(handles, compiled) ==
    [ FreshContext(SCREEN_WIDTH, SCREEN_HEIGHT) EXCEPT
        !.shaders = [ s \in Range(handles) |->
                        LET i == CHOOSE k \in DOMAIN handles : handles[k] = s
                        IN  [ type |-> IF i = 1 THEN "VERTEX_SHADER" ELSE "FRAGMENT_SHADER",
                              source |-> "", compiled |-> compiled[i], deleteFlag |-> FALSE ] ] ]

LinkInit ==
    /\ pc = "create_program"
    /\ glfw = [ initialized |-> TRUE, window |-> TRUE, should_close |-> FALSE,
                key_polling |-> TRUE, framebuffer_size_polling |-> TRUE, swaps |-> 0 ]
    /\ window_events = <<>>
    /\ \E handles \in LinkInputs :
          \E compiled \in [ DOMAIN handles -> BOOLEAN ] :
             /\ gl = ContextWith(handles, compiled)
             /\ locals = [NoLocals EXCEPT !.compiled_shaders = handles]
    /\ app = NoApp
    /\ out = <<>>
    /\ hist = NoHist

LinkNext == CreateProgram \/ AttachShader \/ LinkProgram \/ DeleteShader

LinkSpec == LinkInit /\ [][LinkNext]_vars

(***************************************************************************)
(* The claims.                                                             *)
(***************************************************************************)
\* an Escape key press, as the claims describe it
EscapePressed(e) == e.kind = "Key" /\ e.key = "Escape" /\ e.action = "Press"
Resize(e) == e.kind = "FramebufferSize"

\* process_window_events is draining, or has just returned
Draining == pc \in { "events", "clear" }

\* C1: while process_window_events drains the channel, and when it has drained
\* it, should_close is true exactly when one of the events dispatched so far
\* was a Key event with key Escape and action Press: that event sets it, and
\* every other event (another key, Escape released or repeated, a resize)
\* leaves it as it was.
C1_EscapePressSetsShouldClose ==
    Draining =>
        (glfw.should_close <=> \E i \in DOMAIN hist.drained : EscapePressed(hist.drained[i]))

\* C1 witness: a drain of Escape released, then Escape pressed, has set the flag
C1_Witness ==
    /\ pc = "clear"
    /\ Len(hist.drained) = 2
    /\ hist.drained[1] = [kind |-> "Key", key |-> "Escape", action |-> "Release"]
    /\ EscapePressed(hist.drained[2])
    /\ glfw.should_close

\* the resize events among the events dispatched so far by the current drain
ResizesDrained == SelectSeq(hist.drained, Resize)
LastResize == ResizesDrained[Len(ResizesDrained)]

\* the 32 bits of the i32 x read as an unsigned number, in 16-bit halves
Unsigned(x) ==
    IF x >= 0 THEN << x \div TwoTo16, x % TwoTo16 >>
    ELSE << (TwoTo16 - 1) - ((-(x + 1)) \div TwoTo16), (TwoTo16 - 1) - ((-(x + 1)) % TwoTo16) >>

\* C2 as stated: after FramebufferSize(w, h) was dispatched the latest viewport
\* call is (0, 0, w, h) and the stored screen_width is exactly w and the stored
\* screen_height exactly h, for the last resize event of the drain.
C2_StoredSizeIsExactlyTheEventSize ==
    (Draining /\ ResizesDrained # <<>>) =>
        /\ hist.viewport = << 0, 0, LastResize.width, LastResize.height >>
        /\ HasValue(app.screen_width, LastResize.width)
        /\ HasValue(app.screen_height, LastResize.height)

\* C2 amended: after FramebufferSize(w, h) was dispatched the latest viewport
\* call is (0, 0, w, h) and the stored screen_width and screen_height are w and
\* h cast to u32: exactly w (h) when it is not negative, and w + 2^32 (h + 2^32)
\* when it is negative; the resize events of one drain are applied in FIFO
\* order, so the stored size is that of the last one.
C2_StoredSizeIsTheEventSizeAsU32 ==
    (Draining /\ ResizesDrained # <<>>) =>
        /\ hist.viewport = << 0, 0, LastResize.width, LastResize.height >>
        /\ app.screen_width = Unsigned(LastResize.width)
        /\ app.screen_height = Unsigned(LastResize.height)
        /\ LastResize.width >= 0 => HasValue(app.screen_width, LastResize.width)
        /\ LastResize.height >= 0 => HasValue(app.screen_height, LastResize.height)

\* C2 witness: a drain of two resize events, the last one with negative sizes,
\* has stored the wrapped values of the last one
C2_Witness ==
    /\ pc = "clear"
    /\ Len(hist.drained) = 2
    /\ hist.drained[1] = [kind |-> "FramebufferSize", width |-> 1024, height |-> 768]
    /\ hist.drained[2] = [kind |-> "FramebufferSize", width |-> -1, height |-> I32Min]
    /\ app.screen_width = << 65535, 65535 >>
    /\ app.screen_height = << 32768, 0 >>
    /\ hist.viewport = << 0, 0, -1, I32Min >>

\* C3 as stated: should_close is true only after process_window_events has
\* dispatched an Escape key press, so only that makes the run loop exit.
C3_OnlyEscapeEndsTheLoop ==
    /\ glfw.should_close => hist.escape
    /\ pc = "done" => hist.escape

\* C3 amended: should_close is true, and the run loop exits, only after
\* process_window_events has dispatched an Escape key press or poll_events has
\* taken a close request of the user for the window; clearing, drawing and
\* swapping never make the loop exit, and polling does so only on such a
\* request.
C3_OnlyEscapeOrCloseRequestEndsTheLoop ==
    /\ glfw.should_close => (hist.escape \/ hist.closeRequest)
    /\ pc = "done" => (glfw.should_close /\ (hist.escape \/ hist.closeRequest))
    /\ (pc \in { "use_program", "bind_frame_vao", "draw", "swap", "poll" } /\ ~hist.escape)
          => ~glfw.should_close

\* C3 witness: the loop has exited on a close request, no Escape press dispatched
C3_Witness ==
    /\ pc = "done"
    /\ hist.closeRequest
    /\ ~hist.escape
    /\ hist.iters = 2

\* the calls of one iteration of the run loop, in the order the claim gives
FrameOrder ==
    << Call("process_window_events", "", 0),
       Call("ClearColor", "", 0), Call("Clear", "COLOR_BUFFER_BIT", 0),
       Call("UseProgram", "", app.opengl_context.shader_program),
       Call("BindVertexArray", "", app.opengl_context.vao),
       Call("DrawElements", "TRIANGLES", 6),
       Call("swap_buffers", "", 0),
       Call("poll_events", "", 0) >>

\* how many of them the current iteration has made when the thread is at pc
CallsMadeAt ==
    [ loop_test |-> IF hist.iters = 0 THEN 0 ELSE 8, done |-> IF hist.iters = 0 THEN 0 ELSE 8,
      events |-> 0, clear |-> 1, use_program |-> 3, bind_frame_vao |-> 4, draw |-> 5,
      swap |-> 6, poll |-> 7 ]

\* 1 when the current iteration has not yet made the k-th call of FrameOrder
StillToCome(k) == IF hist.iters > 0 /\ CallsMadeAt[pc] < k THEN 1 ELSE 0

\* C4: every iteration of the run loop makes its calls in the fixed order, each
\* once: drain, clear, bind program, bind vertex array, one DrawElements of 6
\* UNSIGNED_INT indices from offset 0, swap, poll.  The events on the channel
\* were polled by the previous iteration and are all received by the drain at
\* the start of the next one, and the draw calls made are as many as the
\* iterations started (one less until the current iteration has drawn).
C4_FrameOrder ==
    (Running \/ Closing) =>
        /\ hist.frame = SubSeq(FrameOrder, 1, CallsMadeAt[pc])
        /\ Len(hist.draws) = hist.iters - StillToCome(6)
        /\ \A i \in DOMAIN hist.draws :
              /\ hist.draws[i].mode = "TRIANGLES"
              /\ hist.draws[i].count = 6
              /\ hist.draws[i].type = "UNSIGNED_INT"
              /\ hist.draws[i].offset = 0
        /\ glfw.swaps = hist.iters - StillToCome(7)
        /\ ~hist.late
        /\ pc \in FramePcs \ {"events"} => window_events = <<>>
        /\ \A i \in DOMAIN window_events :
              window_events[i][1] = IF pc = "events" THEN hist.iters - 1 ELSE hist.iters

\* C4 witness: the second iteration is receiving the events the first one polled,
\* one draw call made so far
C4_Witness ==
    /\ pc = "events"
    /\ hist.iters = 2
    /\ Len(hist.drained) = 1
    /\ Len(window_events) = 1
    /\ Len(hist.draws) = 1
    /\ glfw.swaps = 1

\* the calls of link_shaders_vec among the GL calls made so far
LinkCall(c) == c.call \in { "CreateProgram", "AttachShader", "LinkProgram", "DeleteShader" }
LinkTrace == SelectSeq(hist.contextCalls, LinkCall)

\* C5: link_shaders_vec attaches every handle it was given to the new program
\* before the link request, deletes every one of them after the link request
\* (each once), and returns the program handle, whether the link status is
\* success or failure.
C5_LinkAttachesDeletesReturns ==
    LET handles == locals.compiled_shaders
        program == locals.link_program
        n == Len(handles)
    IN  /\ pc \in { "attach", "link" } =>
              /\ gl.programs[program].linkRequests = 0
              /\ \A s \in Range(handles) : ~gl.shaders[s].deleteFlag
              /\ locals.shader_program = 0
        /\ pc = "delete" =>
              /\ gl.programs[program].linkRequests = 1
              /\ gl.programs[program].linkedWith = handles
              /\ locals.shader_program = 0
        /\ pc = "gen_vao" =>
              /\ LinkTrace = << Call("CreateProgram", "", program) >>
                                \o [ i \in 1..n |-> Call("AttachShader", "", handles[i]) ]
                                \o << Call("LinkProgram", "", program) >>
                                \o [ i \in 1..n |-> Call("DeleteShader", "", handles[i]) ]
              /\ gl.programs[program].linkRequests = 1
              /\ gl.programs[program].linkedWith = handles
              /\ \A s \in Range(handles) : gl.shaders[s].deleteFlag
              /\ program \in DOMAIN gl.programs
              /\ locals.shader_program = program
              /\ ~gl.error

\* C5 witness: link_shaders_vec has returned the handle of a program of two
\* shaders whose link failed
C5_Witness ==
    /\ pc = "gen_vao"
    /\ Len(locals.compiled_shaders) = 2
    /\ ~gl.programs[locals.link_program].linkStatus
    /\ out = << LinkDiagnostic >>
    /\ locals.shader_program = locals.link_program
    /\ \A s \in Range(locals.compiled_shaders) : gl.shaders[s].deleteFlag

\* the shader handles compile_shaders_vec has returned so far
Compiled == locals.compiled_shaders

\* what the program has printed once the context is built, given the program
\* object: a line per shader that did not compile, then one if the link failed
DiagnosticsOf(program) ==
    LET linked == gl.programs[program].linkedWith
        line(i) == IF gl.shaders[linked[i]].compiled THEN <<>> ELSE << CompileDiagnostic >>
    IN  line(1) \o line(2)
            \o (IF gl.programs[program].linkStatus THEN <<>> ELSE << LinkDiagnostic >>)

\* C6 (state part): whatever the compile and link outcomes, the process is not
\* ended after the window exists; every handle compile returned names a shader
\* object; the program stored in the context is the one the two shaders were
\* attached to and linked in; every frame passes it to UseProgram; and the
\* only trace of a failure is the diagnostic line printed for it.
C6_FailOpenState ==
    /\ glfw.window => pc # "panicked"
    /\ pc \in { "compile", "create_program", "attach", "link", "delete" } =>
          \A s \in Range(Compiled) : s \in DOMAIN gl.shaders
    /\ pc \in { "create_program", "attach", "link", "delete" } => Len(Compiled) = 2
    /\ app.constructed =>
          LET program == app.opengl_context.shader_program
          IN  /\ program \in DOMAIN gl.programs
              /\ gl.programs[program].linkRequests = 1
              /\ Len(gl.programs[program].linkedWith) = 2
              /\ gl.programs[program].attached = gl.programs[program].linkedWith
              /\ \A s \in Range(gl.programs[program].linkedWith) : s \in DOMAIN gl.shaders
              /\ gl.shaders[gl.programs[program].linkedWith[1]].type = "VERTEX_SHADER"
              /\ gl.shaders[gl.programs[program].linkedWith[2]].type = "FRAGMENT_SHADER"
              /\ out = DiagnosticsOf(program)
              /\ \A i \in DOMAIN hist.frame :
                    hist.frame[i].call = "UseProgram" => hist.frame[i].arg = program

\* C6: shader compile failure and program link failure are fail-open: the state
\* part above always holds, and once the window exists the application reaches
\* the Running state, for every combination of compile and link outcomes.
C6_FailOpen == [] C6_FailOpenState /\ (pc = "window_setup" ~> Running)

\* C6 witness: both compiles and the link failed, three diagnostics printed, and
\* the run loop is about to draw with the program handle passed to UseProgram
C6_Witness ==
    /\ pc = "draw"
    /\ out = << CompileDiagnostic, CompileDiagnostic, LinkDiagnostic >>
    /\ ~gl.programs[app.opengl_context.shader_program].linkStatus
    /\ Call("UseProgram", "", app.opengl_context.shader_program) \in Range(hist.frame)

\* C7 (state part): the process is ended only with no window, and then nothing
\* was created: no shader, program, vertex array or buffer, no application
\* value, no iteration of the run loop, and the panic message is all the output.
C7_FatalOnlyBeforeWindow ==
    /\ pc = "panicked" =>
          /\ ~glfw.window
          /\ gl.shaders = <<>> /\ gl.programs = <<>> /\ gl.buffers = <<>> /\ gl.vaos = <<>>
          /\ ~app.constructed
          /\ hist.iters = 0 /\ hist.contextCalls = <<>>
          /\ Len(out) = 1
    /\ glfw.window => pc # "panicked"

\* C7 (step part): the process is ended only by glfw::init or create_window
\* failing, and nothing happens after that (no retry)
C7_FatalStep ==
    /\ pc # "panicked"
    /\ pc' = "panicked" => pc \in { "glfw_init", "create_window" }

\* C7: window or windowing-layer creation failure is the sole fatal condition;
\* it ends the process from the Uninitialized state before anything is
\* created, and when it does not occur the application reaches Running.
C7_WindowFailureSoleFatal ==
    /\ [] C7_FatalOnlyBeforeWindow
    /\ [][C7_FatalStep]_vars
    /\ <>(pc = "panicked" \/ Running)

\* C7 witness: GLFW initialized, window creation failed, process ended
C7_Witness ==
    /\ pc = "panicked"
    /\ glfw.initialized
    /\ ~glfw.window
    /\ out = << "panic: Failed to create GLFW Window" >>

\* how many calls named name the sequence calls holds
Count(calls, name) == Cardinality({ i \in DOMAIN calls : calls[i].call = name })

\* C8 (state part): once the application is constructed, the GL holds exactly
\* one program, one vertex array and two buffers (vertex and index), each
\* created by one call of OpenGLContext::initialize, with non-zero handles that
\* are the ones stored in the application; the buffers hold the data uploaded
\* at initialization; and the handles every frame binds are these.
C8_OneOfEachState ==
    /\ Cardinality(DOMAIN gl.programs) <= 1
    /\ Cardinality(DOMAIN gl.vaos) <= 1
    /\ Cardinality(DOMAIN gl.buffers) <= 2
    /\ app.constructed =>
          LET c == app.opengl_context
          IN  /\ DOMAIN gl.programs = { c.shader_program }
              /\ DOMAIN gl.vaos = { c.vao }
              /\ DOMAIN gl.buffers = { c.vbo, c.ebo }
              /\ c.vbo # c.ebo
              /\ 0 \notin { c.shader_program, c.vao, c.vbo, c.ebo }
              /\ Count(hist.contextCalls, "CreateProgram") = 1
              /\ Count(hist.contextCalls, "GenVertexArrays") = 1
              /\ Count(hist.contextCalls, "GenBuffers") = 2
              /\ Count(hist.contextCalls, "BufferData") = 2
              /\ gl.buffers[c.vbo].data = verticies
              /\ gl.buffers[c.ebo].data = indicies
              /\ gl.vaos[c.vao].elementBuffer = c.ebo
              /\ gl.vaos[c.vao].attrib0.buffer = c.vbo
              /\ \A i \in DOMAIN hist.frame :
                    /\ hist.frame[i].call = "UseProgram" => hist.frame[i].arg = c.shader_program
                    /\ hist.frame[i].call = "BindVertexArray" => hist.frame[i].arg = c.vao
              /\ \A i \in DOMAIN hist.draws : hist.draws[i].vao = c.vao

\* C8 (step part): no step of the run loop or of event dispatch creates,
\* deletes, re-uploads or replaces a program, buffer or vertex array, or
\* changes the handles stored in the application
C8_NothingRecreated ==
    app.constructed =>
        /\ app'.opengl_context = app.opengl_context
        /\ gl'.programs = gl.programs
        /\ gl'.buffers = gl.buffers
        /\ gl'.vaos = gl.vaos
        /\ gl'.shaders = gl.shaders
        /\ hist'.contextCalls = hist.contextCalls

\* C8: exactly one shader program and one geometry buffer set exist after
\* initialization, created once and never recreated, re-uploaded or replaced
\* by the run loop or by event dispatch; every frame binds these handles.
C8_OneProgramOneGeometry == [] C8_OneOfEachState /\ [][C8_NothingRecreated]_vars

\* C8 witness: the second frame, after a resize event was dispatched, is about
\* to draw with the vertex array of the initialization bound
C8_Witness ==
    /\ pc = "draw"
    /\ hist.iters = 2
    /\ app.screen_width # U32(SCREEN_WIDTH)
    /\ gl.vertexArrayBinding = app.opengl_context.vao
    /\ gl.vertexArrayBinding # 0

\* C9: the geometry set-up makes its bind-sensitive calls in order: the vertex
\* array is bound before any buffer is bound or filled and stays bound until
\* the last call; the vertex buffer is bound when the vertex data is uploaded
\* and when attribute 0 is described and enabled; the index buffer is bound and
\* filled while the vertex array is bound and is never unbound from it; the
\* vertex buffer is unbound first, the vertex array second.  At the end both
\* bindings are 0 and the vertex array records the vertex buffer for attribute
\* 0 and the index buffer as its element buffer.
C9_GeometryOrder ==
    LET vao == locals.vao
        vbo == locals.vbo
        ebo == locals.ebo
    IN  /\ pc \in { "gen_vao", "gen_vbo", "gen_ebo", "bind_vao" } =>
              /\ gl.arrayBufferBinding = 0
              /\ gl.vertexArrayBinding = 0
              /\ \A b \in DOMAIN gl.buffers : gl.buffers[b].data = <<>>
        /\ pc \in { "bind_vbo", "data_vbo", "bind_ebo", "data_ebo", "attrib_pointer",
                    "enable_attrib", "unbind_vbo", "unbind_vao" } =>
              /\ vao # 0
              /\ gl.vertexArrayBinding = vao
        /\ pc = "bind_vbo" => gl.arrayBufferBinding = 0
        /\ pc \in { "data_vbo", "bind_ebo", "data_ebo", "attrib_pointer", "enable_attrib",
                    "unbind_vbo" } =>
              /\ vbo # 0
              /\ gl.arrayBufferBinding = vbo
        /\ pc \in { "bind_ebo", "data_ebo", "attrib_pointer", "enable_attrib", "unbind_vbo",
                    "unbind_vao", "construct" } =>
              gl.buffers[vbo].data = << -90, -50, 0,   0, -50, 0,   -45, 50, 0,
                                          0, -50, 0,  90, -50, 0,    45, 50, 0 >>
        /\ pc \in { "data_ebo", "attrib_pointer", "enable_attrib", "unbind_vbo",
                    "unbind_vao", "construct" } =>
              /\ ebo # 0
              /\ gl.vaos[vao].elementBuffer = ebo
        /\ pc \in { "attrib_pointer", "enable_attrib", "unbind_vbo", "unbind_vao", "construct" } =>
              gl.buffers[ebo].data = << 0, 1, 3, 1, 2, 3 >>
        /\ pc \in { "enable_attrib", "unbind_vbo", "unbind_vao", "construct" } =>
              /\ gl.vaos[vao].attrib0.buffer = vbo
              /\ gl.vaos[vao].attrib0.size = 3
              /\ gl.vaos[vao].attrib0.stride = 12
        /\ pc \in { "unbind_vbo", "unbind_vao", "construct" } => gl.vaos[vao].attrib0.enabled
        /\ pc = "unbind_vao" => gl.arrayBufferBinding = 0
        /\ pc = "construct" =>
              /\ gl.arrayBufferBinding = 0
              /\ gl.vertexArrayBinding = 0
        /\ Call("BindBuffer", "ELEMENT_ARRAY_BUFFER", 0) \notin Range(hist.contextCalls)
        /\ pc \in ContextPcs => ~gl.error

\* C9 witness: the set-up is complete, with vertex buffer 2 and index buffer 1
C9_Witness ==
    /\ pc = "construct"
    /\ locals.vbo = 2
    /\ locals.ebo = 1
    /\ gl.vaos[locals.vao].attrib0.buffer = 2
    /\ gl.vaos[locals.vao].elementBuffer = 1
    /\ gl.arrayBufferBinding = 0
    /\ gl.vertexArrayBinding = 0

\* the loop is at its test or has exited
BetweenIterations == pc \in { "loop_test", "done" }

\* one more clear, draw, swap and poll, and no more, since Escape was dispatched
OneMoreFrameSinceEscape ==
    /\ Count(hist.sinceEscape, "Clear") = 1
    /\ Count(hist.sinceEscape, "DrawElements") = 1
    /\ Count(hist.sinceEscape, "swap_buffers") = 1
    /\ Count(hist.sinceEscape, "poll_events") = 1
    /\ Count(hist.sinceEscape, "process_window_events") = 1

\* C10 as stated, its last part: the loop terminates only if an Escape press
\* was dispatched (together with what the claim says happens after one).
C10_LoopEndsOnlyAfterEscape ==
    /\ hist.escape => glfw.should_close
    /\ (hist.escape /\ BetweenIterations) => OneMoreFrameSinceEscape
    /\ pc = "done" => hist.escape

\* C10 (state part): an Escape press dispatched leaves should_close true; the
\* iteration that dispatched it completes with exactly one more clear, draw,
\* swap and poll; the loop has exited only with should_close true, set by an
\* Escape press or by a close request taken by poll_events; and with
\* should_close false (and iterations left in the model) the next iteration
\* can start.
C10_LoopState ==
    /\ hist.escape => glfw.should_close
    /\ (hist.escape /\ BetweenIterations) => OneMoreFrameSinceEscape
    /\ pc = "done" => (glfw.should_close /\ (hist.escape \/ hist.closeRequest))
    /\ (pc = "loop_test" /\ ~glfw.should_close /\ hist.iters < MaxFrames) => ENABLED LoopEnter
    /\ (pc = "loop_test" /\ ~glfw.should_close) => ~ENABLED LoopExit

\* C10 (step part): should_close stays true once true; the flag is tested only
\* at the top of an iteration: with the flag true no iteration starts, with it
\* false the loop does not exit, and inside an iteration the body goes on
\* whatever the flag is
C10_LoopStep ==
    /\ glfw.should_close => glfw'.should_close
    /\ pc = "loop_test" => pc' = IF glfw.should_close THEN "done" ELSE "events"
    /\ pc' = "done" => (pc = "loop_test" /\ glfw.should_close)
    /\ pc' = "events" => (pc = "events" \/ (pc = "loop_test" /\ ~glfw.should_close))

\* C10 amended: the run loop repeats only while should_close is false and
\* tests the flag only at the top of an iteration; once an Escape press is
\* dispatched should_close stays true, the current iteration completes (one
\* more clear, draw, swap and poll), no further iteration starts and the loop
\* terminates; the loop also terminates when poll_events takes a close request
\* for the window; if neither happens the loop never terminates.
C10_LoopUntilShouldClose ==
    /\ [] C10_LoopState
    /\ [][C10_LoopStep]_vars
    /\ (glfw.should_close ~> pc = "done")

\* C10 witness: the loop has exited after an Escape press, with no close
\* request, the iteration that dispatched it completed
C10_Witness ==
    /\ pc = "done"
    /\ hist.escape
    /\ ~hist.closeRequest
    /\ OneMoreFrameSinceEscape
    /\ hist.iters = 2

====
